---- MODULE Spec2Model ----
(***************************************************************************)
(* Model of graphnet's DataConverter (src/graphnet/data/dataconverter.py): *)
(* save-strategy inference, pattern grouping, the map function, the        *)
(* per-file processor with its shared index counter, and the orchestrator. *)
(*                                                                         *)
(* Strings are sequences of one-character strings.  An Optional value is a *)
(* sequence of length at most one: None is <<>>, a given value v is <<v>>. *)
(***************************************************************************)
EXTENDS Integers, Sequences, FiniteSets, Bags, TLC

(* ------------------------------ bounds -------------------------------- *)
\* longest wildcard pattern drawn when strategy inference is checked alone
MaxPatLen == 3
\* most files one call discovers
MaxFiles == 2
\* most records one event file holds
MaxRecords == 1
\* most frames read over all calls made on one converter instance
MaxEvents == 3
\* largest requested worker count
MaxWorkers == 2
\* most calls made on one converter instance
MaxCalls == 2

(* ------------------------- strings and options ------------------------ *)
None == <<>>
Some(v) == <<v>>
IsNone(o) == o = <<>>
Get(o) == o[1]

\* characters of the model alphabet in code-point order
CharOrder == <<"*", ".", "/", "1", "2", "3", "\\", "_", "a", "b", "i", "n", "o", "p", "r", "t", "u", "x", "z">>

Ord(c) == CHOOSE i \in 1..Len(CharOrder) : CharOrder[i] = c

\* Python's str < str: lexicographic by code point, a proper prefix is smaller
RECURSIVE StrLess(_, _)
StrLess(s, t) ==
    IF t = <<>> THEN FALSE
    ELSE IF s = <<>> THEN TRUE
    ELSE IF Head(s) = Head(t) THEN StrLess(Tail(s), Tail(t))
    ELSE Ord(Head(s)) < Ord(Head(t))

Contains(s, c) == \E i \in 1..Len(s) : s[i] = c

\* s[i..] starts with f  (i is 1-based; f may be empty)
StartsAt(s, i, f) ==
    /\ i + Len(f) - 1 <= Len(s)
    /\ \A k \in 1..Len(f) : s[i + k - 1] = f[k]

\* str.replace(".", "\\.")
RECURSIVE EscapeDots(_)
EscapeDots(s) ==
    IF s = <<>> THEN <<>>
    ELSE (IF Head(s) = "." THEN <<"\\", ".">> ELSE <<Head(s)>>) \o EscapeDots(Tail(s))

\* str.split("*"): always at least one field, fields may be empty
RECURSIVE SplitStar(_, _)
SplitStar(s, cur) ==
    IF s = <<>> THEN <<cur>>
    ELSE IF Head(s) = "*" THEN <<cur>> \o SplitStar(Tail(s), <<>>)
    ELSE SplitStar(Tail(s), Append(cur, Head(s)))

\* sep.join(parts)
RECURSIVE Join(_, _)
Join(parts, sep) ==
    IF parts = <<>> THEN <<>>
    ELSE IF Len(parts) = 1 THEN parts[1]
    ELSE parts[1] \o sep \o Join(Tail(parts), sep)

Digits == <<"1", "2", "3", "4", "5", "6", "7", "8", "9">>

\* os.path.basename: what follows the last "/"
RECURSIVE Basename(_)
Basename(p) ==
    IF Contains(p, "/")
    THEN Basename(Tail(p))
    ELSE p

(* ------------------- re.sub for the grouping regex -------------------- *)
\* The regex built by _infer_save_strategy is "(f1).*(f2).*...(fn)": groups
\* of literal characters (a "." is escaped) separated by ".*".  ReGroups
\* reads the literal text of each group back from the regex string.
RECURSIVE ReGroups(_, _, _)
ReGroups(re, cur, inGroup) ==
    IF re = <<>> THEN <<>>
    ELSE IF ~inGroup
         THEN IF Head(re) = "(" THEN ReGroups(Tail(re), <<>>, TRUE)
              ELSE ReGroups(Tail(re), <<>>, FALSE)
         ELSE IF Head(re) = ")" THEN <<cur>> \o ReGroups(Tail(re), <<>>, FALSE)
              ELSE IF Head(re) = "\\" THEN ReGroups(Tail(Tail(re)), Append(cur, re[2]), TRUE)
              ELSE ReGroups(Tail(re), Append(cur, Head(re)), TRUE)

\* the groups gs can be matched in s, the first one starting at or after from
RECURSIVE RestMatch(_, _, _)
RestMatch(s, from, gs) ==
    IF gs = <<>> THEN TRUE
    ELSE \E j \in from..(Len(s) + 1) :
            /\ StartsAt(s, j, Head(gs))
            /\ RestMatch(s, j + Len(Head(gs)), Tail(gs))

\* a match of the whole regex starts exactly at i
MatchAt(s, i, gs) ==
    /\ StartsAt(s, i, Head(gs))
    /\ RestMatch(s, i + Len(Head(gs)), Tail(gs))

SetMax(S) == CHOOSE m \in S : \A k \in S : k <= m
SetMin(S) == CHOOSE m \in S : \A k \in S : m <= k

\* where the backtracking match ends: every ".*" is greedy, so each group is
\* placed as far right as the remaining groups allow
RECURSIVE GreedyEnd(_, _, _)
GreedyEnd(s, from, gs) ==
    IF gs = <<>> THEN from
    ELSE LET J == {j \in from..(Len(s) + 1) :
                      /\ StartsAt(s, j, Head(gs))
                      /\ RestMatch(s, j + Len(Head(gs)), Tail(gs))}
         IN  GreedyEnd(s, SetMax(J) + Len(Head(gs)), Tail(gs))

MatchEnd(s, i, gs) == GreedyEnd(s, i + Len(Head(gs)), Tail(gs))

\* the replacement template "\1x\2...": "\d" stands for the text of group d
RECURSIVE Expand(_, _)
Expand(repl, gs) ==
    IF repl = <<>> THEN <<>>
    ELSE IF Head(repl) = "\\"
         THEN gs[CHOOSE d \in 1..Len(Digits) : Digits[d] = repl[2]] \o Expand(Tail(Tail(repl)), gs)
         ELSE <<Head(repl)>> \o Expand(Tail(repl), gs)

\* re.sub's loop: replace every leftmost non-overlapping match; text that no
\* match covers is copied unchanged; after an empty match the next one must
\* advance
RECURSIVE SubFrom(_, _, _, _, _)
SubFrom(s, pos, mustAdvance, gs, repl) ==
    LET C == {i \in pos..(Len(s) + 1) :
                 /\ MatchAt(s, i, gs)
                 /\ ~(mustAdvance /\ i = pos /\ MatchEnd(s, i, gs) = i)}
    IN  IF C = {} THEN SubSeq(s, pos, Len(s))
        ELSE LET i == SetMin(C)
                 e == MatchEnd(s, i, gs)
             IN  SubSeq(s, pos, i - 1) \o Expand(repl, gs) \o SubFrom(s, e, e = i, gs, repl)

ReSub(sub_from, sub_to, s) == SubFrom(s, 1, FALSE, ReGroups(sub_from, <<>>, FALSE), sub_to)

\* re.search(sub_from, s) is not None
ReMatches(sub_from, s) ==
    \E i \in 1..(Len(s) + 1) : MatchAt(s, i, ReGroups(sub_from, <<>>, FALSE))

(* ----------------------- _infer_save_strategy ------------------------- *)
SAVE_STRATEGIES == {"1:1", "sequential_batched", "pattern_batched"}

\* fields = ["(" + field + ")" for field in pattern.replace(".", "\\.").split("*")]
PatternFields(pattern) ==
    LET raw == SplitStar(EscapeDots(pattern), <<>>)
    IN  [k \in 1..Len(raw) |-> <<"(">> \o raw[k] \o <<")">>]

\* self._sub_from = ".*".join(fields)
SubFromOf(pattern) == Join(PatternFields(pattern), <<".", "*">>)

\* self._sub_to = "x".join(["\\1", "\\2", ...])
SubToOf(pattern) ==
    Join([k \in 1..Len(PatternFields(pattern)) |-> <<"\\", Digits[k]>>], <<"x">>)

\* variant of HasWildcard: the pattern is not looked at
HasWildcardMut(pattern) == TRUE

\* the first branch's assert: "*" in input_file_batch_pattern
HasWildcard(pattern) == Contains(pattern, "*")

\* variant of BothSequentialGiven: one of the two options is enough
BothSequentialGivenMut(nb, seq) == ~IsNone(nb) \/ ~IsNone(seq)

\* the second branch's assert: both sequential options are given
BothSequentialGiven(nb, seq) == ~IsNone(nb) /\ ~IsNone(seq)

\* variant of InferSaveStrategy: the sequential options are looked at before
\* the wildcard pattern
InferSaveStrategyMut(nb, seq, pat) ==
    IF ~IsNone(nb) \/ ~IsNone(seq)
    THEN IF ~BothSequentialGiven(nb, seq)
         THEN [raised |-> TRUE, strategy |-> None, sub_from |-> None, sub_to |-> None,
               warnings |-> {}]
         ELSE [raised |-> FALSE, strategy |-> Some("sequential_batched"),
               sub_from |-> None, sub_to |-> None, warnings |-> {}]
    ELSE IF ~IsNone(pat)
    THEN IF ~HasWildcard(Get(pat))
         THEN [raised |-> TRUE, strategy |-> None, sub_from |-> None, sub_to |-> None,
               warnings |-> {}]
         ELSE [raised |-> FALSE, strategy |-> Some("pattern_batched"),
               sub_from |-> Some(SubFromOf(Get(pat))), sub_to |-> Some(SubToOf(Get(pat))),
               warnings |-> {}]
    ELSE [raised |-> FALSE, strategy |-> Some("1:1"),
          sub_from |-> None, sub_to |-> None, warnings |-> {}]

\* Result of the call: raised says whether an assert failed; strategy is the
\* returned value; sub_from, sub_to are the attributes the pattern branch set.
InferSaveStrategy(nb, seq, pat) ==
    IF ~IsNone(pat)
    THEN IF ~HasWildcard(Get(pat))
         THEN [raised |-> TRUE, strategy |-> None, sub_from |-> None, sub_to |-> None,
               warnings |-> {}]
         ELSE [raised |-> FALSE, strategy |-> Some("pattern_batched"),
               sub_from |-> Some(SubFromOf(Get(pat))), sub_to |-> Some(SubToOf(Get(pat))),
               warnings |-> (IF ~IsNone(seq) THEN {"sequential_batch_pattern ignored"} ELSE {})
                            \cup (IF ~IsNone(nb) THEN {"nb_files_to_batch ignored"} ELSE {})]
    ELSE IF ~IsNone(nb) \/ ~IsNone(seq)
    THEN IF ~BothSequentialGiven(nb, seq)
         THEN [raised |-> TRUE, strategy |-> None, sub_from |-> None, sub_to |-> None,
               warnings |-> {}]
         ELSE [raised |-> FALSE, strategy |-> Some("sequential_batched"),
               sub_from |-> None, sub_to |-> None, warnings |-> {}]
    ELSE [raised |-> FALSE, strategy |-> Some("1:1"),
          sub_from |-> None, sub_to |-> None, warnings |-> {}]

(* ------------------------- pattern grouping --------------------------- *)
\* An input pair is <<i3_file, gcd_file>>.
\* sorted(args, key=lambda p: p[0]): stable, ascending by event-file path
\* variant of InsertSorted: the sort key is the basename, not the path
RECURSIVE InsertSortedMut(_, _)
InsertSortedMut(sorted, p) ==
    IF sorted = <<>> THEN <<p>>
    ELSE IF StrLess(Basename(p[1]), Basename(Head(sorted)[1])) THEN <<p>> \o sorted
    ELSE <<Head(sorted)>> \o InsertSortedMut(Tail(sorted), p)

RECURSIVE InsertSorted(_, _)
InsertSorted(sorted, p) ==
    IF sorted = <<>> THEN <<p>>
    ELSE IF StrLess(p[1], Head(sorted)[1]) THEN <<p>> \o sorted
    ELSE <<Head(sorted)>> \o InsertSorted(Tail(sorted), p)

RECURSIVE SortedByPath(_)
SortedByPath(pairs) ==
    IF pairs = <<>> THEN <<>>
    ELSE InsertSorted(SortedByPath(SubSeq(pairs, 1, Len(pairs) - 1)), pairs[Len(pairs)])

\* group = re.sub(self._sub_from, self._sub_to, os.path.basename(i3_file))
GroupKey(subFrom, subTo, i3_file) == ReSub(subFrom, subTo, Basename(i3_file))

\* groups[group].append(...), a new key is inserted at the end (OrderedDict)
AddToGroups(groups, key, p) ==
    IF \E g \in 1..Len(groups) : groups[g].name = key
    THEN [g \in 1..Len(groups) |->
            IF groups[g].name = key
            THEN [groups[g] EXCEPT !.files = Append(@, p)]
            ELSE groups[g]]
    ELSE Append(groups, [name |-> key, files |-> <<p>>])

RECURSIVE GroupInto(_, _, _, _)
GroupInto(pairs, groups, subFrom, subTo) ==
    IF pairs = <<>> THEN groups
    ELSE GroupInto(Tail(pairs),
                   AddToGroups(groups, GroupKey(subFrom, subTo, Head(pairs)[1]), Head(pairs)),
                   subFrom, subTo)

\* variant of GroupingOrder: the pairs are grouped in the order they arrive
GroupingOrderMut(pairs) == pairs

\* the order in which execute traverses the pairs when it groups them
GroupingOrder(pairs) == SortedByPath(pairs)

\* the batches execute hands to _iterate_over_batches_of_files
PatternBatches(pairs, subFrom, subTo) ==
    LET groups == GroupInto(GroupingOrder(pairs), <<>>, subFrom, subTo)
    IN  [g \in 1..Len(groups) |-> [files |-> groups[g].files, name |-> Some(groups[g].name)]]

\* one job per pair, as _iterate_over_individual_files and the sequential
\* batching loop submit them
FileJobs(pairs) == [k \in 1..Len(pairs) |-> [files |-> <<pairs[k]>>, name |-> None]]

(* --------------------------- output paths ----------------------------- *)
\* the sink's file_suffix (abstract property; "db" for the SQLite sink)
FileSuffix == <<"d", "b">>

\* re.sub(r"\.i3\..*", "", basename): cut at the first ".i3."
RECURSIVE StripI3(_)
StripI3(s) ==
    IF s = <<>> THEN <<>>
    ELSE IF StartsAt(s, 1, <<".", "i", "3", ".">>) THEN <<>>
    ELSE <<Head(s)>> \o StripI3(Tail(s))

\* _get_output_file, relative to self._outdir
GetOutputFile(input_file) == StripI3(Basename(input_file)) \o <<".">> \o FileSuffix

Digits0 == <<"0", "1", "2", "3", "4", "5", "6", "7", "8", "9">>

\* sequential_batch_pattern.format(ix_batch): the token "{}" is the placeholder
RECURSIVE Format(_, _)
Format(pattern, n) ==
    IF pattern = <<>> THEN <<>>
    ELSE (IF Head(pattern) = "{}" THEN <<Digits0[n + 1]>> ELSE <<Head(pattern)>>)
         \o Format(Tail(pattern), n)

(* -------------------------- get_map_function -------------------------- *)
Min(a, b) == IF a < b THEN a ELSE b

\* variant of EffectiveWorkers: the job count is not taken into account
EffectiveWorkersMut(requested, nb_files) == requested

\* workers = min(self._workers, nb_files)
EffectiveWorkers(requested, nb_files) == Min(requested, nb_files)

\* if workers > 1: Pool(processes=workers), p.imap; else map
UsesPool(requested, nb_files) == EffectiveWorkers(requested, nb_files) > 1

(* ------------------------------- state -------------------------------- *)
VARIABLES
    cfg,            \* constructor arguments: nb, seq, pat (Optional), workers
    universe,       \* event-file paths that exist under the input directories
    phase,          \* where the instance / the current __call__ stands
    save_strategy,  \* self._save_strategy (Optional)
    sub_from,       \* self._sub_from (Optional)
    sub_to,         \* self._sub_to (Optional)
    warnings,       \* warnings logged by the constructor
    index,          \* self._index.value
    lock,           \* owner of self._index's lock (Optional worker id)
    args,           \* the pairs of the current call, in processing order
    jobs,           \* what the map function is applied to
    map_fn,         \* "none", "map" or "imap"
    pool_size,      \* processes of the pool started for this call (0: none)
    next_job,       \* number of jobs handed to a processor so far
    results,        \* per job: the processor's return value, once available
    runs,           \* per job: how many times a processor was applied to it
    yielded,        \* job numbers in the order the map function yielded them
    dataset,        \* local list of the sequential batching loop
    ix_batch,       \* local counter of the sequential batching loop
    wk,             \* per process: position inside _process_file / _process_batch
    assigned,       \* events indexed in the current call, with their index
    earlier,        \* index values assigned by earlier calls of the instance
    popped,         \* frames pop_physics returned in the current call
    saved,          \* bag of save_data calls of the current call
    fsops,          \* file-system operations performed since construction
    calls,          \* number of __call__ invocations started
    hist,           \* what the current call has done: hooks run, interrupts, failures
    pq              \* the ParquetToSQLiteConverter instance and its run

vars == <<cfg, universe, phase, save_strategy, sub_from, sub_to, warnings, index, lock,
          args, jobs, map_fn, pool_size, next_job, results, runs, yielded, dataset,
          ix_batch, wk, assigned, earlier, popped, saved, fsops, calls, hist, pq>>

\* process ids: 0 is the calling (main) process, 1..MaxWorkers are pool workers
Procs == 0..MaxWorkers

IdleProc == [pc |-> "idle", job |-> 0, fno |-> 0, pos |-> 0, reads |-> <<>>,
             data |-> <<>>, batch |-> <<>>, idx |-> 0]

\* the companion geometry file of every pair (gcd_rescue)
Gcd == <<"g">>

(* ---------------------------- constructor ----------------------------- *)
SeqPattern == <<"b", "{}">>

\* constructor arguments of the full model
Configs ==
    {[nb |-> c[1], seq |-> c[2], pat |-> c[3], workers |-> w] :
        c \in {<<None, None, None>>,
               <<Some(2), Some(SeqPattern), None>>,
               <<None, None, Some(<<"a", "*">>)>>,
               <<Some(2), None, None>>,
               <<None, Some(SeqPattern), None>>,
               <<None, None, Some(<<"a">>)>>,
               <<Some(2), Some(SeqPattern), Some(<<"a">>)>>},
        w \in 1..MaxWorkers}

\* event files the input directories of the full model can hold
Universe == {<<"a", "1">>, <<"a", "2">>, <<"b", "1">>}

\* nothing has happened yet in the current call
HistInit == [initialise |-> 0, execute |-> 0, finalise |-> 0, sigint |-> 0,
             caught |-> FALSE, failed |-> {}, done |-> {}]

\* no ParquetToSQLiteConverter has been constructed
PqNone == [phase |-> "none", files |-> <<>>, excluded |-> {}, i |-> 0, j |-> 0,
           event_counter |-> 0, created_tables |-> {}, written |-> <<>>, sizes |-> <<>>,
           runs |-> 0]

\* the DataConverter's side of the initial state
ConvInit(c, u) ==
    /\ cfg = c
    /\ universe = u
    /\ phase = "new"
    /\ save_strategy = None
    /\ sub_from = None
    /\ sub_to = None
    /\ warnings = {}
    /\ index = 0
    /\ lock = None
    /\ args = <<>>
    /\ jobs = <<>>
    /\ map_fn = "none"
    /\ pool_size = 0
    /\ next_job = 0
    /\ results = <<>>
    /\ runs = <<>>
    /\ yielded = <<>>
    /\ dataset = <<>>
    /\ ix_batch = 0
    /\ wk = [w \in Procs |-> IdleProc]
    /\ assigned = {}
    /\ earlier = {}
    /\ popped = 0
    /\ saved = EmptyBag
    /\ fsops = {}
    /\ calls = 0
    /\ hist = HistInit

InitWith(c, u) == ConvInit(c, u) /\ pq = PqNone

Init == \E c \in Configs : InitWith(c, Universe)

\* DataConverter.__init__: infer the strategy (an assert may fail), then set
\* the members; self._index = Value("i", 0)
Construct ==
    /\ phase = "new"
    /\ LET r == InferSaveStrategy(cfg.nb, cfg.seq, cfg.pat)
       IN  IF r.raised
           THEN /\ phase' = "ctor_failed"
                /\ UNCHANGED <<save_strategy, sub_from, sub_to, warnings>>
           ELSE /\ phase' = "idle"
                /\ save_strategy' = r.strategy
                /\ sub_from' = r.sub_from
                /\ sub_to' = r.sub_to
                /\ warnings' = r.warnings
    /\ index' = 0
    /\ UNCHANGED <<cfg, universe, lock, args, jobs, map_fn, pool_size, next_job, results,
                   runs, yielded, dataset, ix_batch, wk, assigned, earlier, popped, saved, fsops,
                   calls, hist, pq>>

(* ----------------------------- __call__ ------------------------------- *)
\* the paths of S in ascending order
SortedSeq(S) ==
    CHOOSE q \in [1..Cardinality(S) -> S] :
        \A i, j \in 1..Cardinality(S) : i < j => StrLess(q[i], q[j])

Perms(n) == {f \in [1..n -> 1..n] : \A i, j \in 1..n : f[i] = f[j] => i = j}

\* find_i3_files: the event files found, each paired with a geometry file
FindI3Files(S) == [k \in 1..Cardinality(S) |-> <<SortedSeq(S)[k], Gcd>>]

\* pairwise_shuffle: one permutation applied to both lists
PairwiseShuffle(pairs, f) == [k \in 1..Len(pairs) |-> pairs[f[k]]]

\* variant of NoFilesFound: the early return is never taken
NoFilesFoundMut(i3_files) == FALSE

\* if len(i3_files) == 0
NoFilesFound(i3_files) == Len(i3_files) = 0

\* variant of IndexOnCall: every call starts its numbering afresh
IndexOnCallMut(v) == 0

\* self._index when __call__ starts: the Value made by the constructor, which
\* no statement of __call__ or execute replaces or assigns to
IndexOnCall(v) == v

\* __call__ up to the early return: find the files; none found: log, return
CallFind(maxFiles, maxCalls) ==
    /\ phase = "idle"
    /\ calls < maxCalls
    /\ \E S \in SUBSET universe :
          /\ Cardinality(S) <= maxFiles
          /\ args' = FindI3Files(S)
          /\ phase' = IF NoFilesFound(FindI3Files(S)) THEN "idle" ELSE "found"
    /\ calls' = calls + 1
    /\ hist' = HistInit
    /\ fsops' = fsops \cup {"find"}
    /\ earlier' = earlier \cup {e.index : e \in assigned}
    /\ assigned' = {}
    /\ popped' = 0
    /\ saved' = EmptyBag
    /\ jobs' = <<>>
    /\ results' = <<>>
    /\ runs' = <<>>
    /\ yielded' = <<>>
    /\ next_job' = 0
    /\ map_fn' = "none"
    /\ pool_size' = 0
    /\ index' = IndexOnCall(index)
    /\ UNCHANGED <<cfg, universe, save_strategy, sub_from, sub_to, warnings, lock,
                   dataset, ix_batch, wk, pq>>

\* self._save_filenames(i3_files)
SaveFilenames ==
    /\ phase = "found"
    /\ phase' = "recorded"
    /\ fsops' = fsops \cup {"config_dir", "i3files.csv"}
    /\ UNCHANGED <<cfg, universe, save_strategy, sub_from, sub_to, warnings, index, lock,
                   args, jobs, map_fn, pool_size, next_job, results, runs, yielded, dataset,
                   ix_batch, wk, assigned, earlier, popped, saved, calls, hist, pq>>

\* i3_files, gcd_files = pairwise_shuffle(i3_files, gcd_files)
Shuffle ==
    /\ phase = "recorded"
    /\ \E f \in Perms(Len(args)) : args' = PairwiseShuffle(args, f)
    /\ phase' = "shuffled"
    /\ UNCHANGED <<cfg, universe, save_strategy, sub_from, sub_to, warnings, index, lock,
                   jobs, map_fn, pool_size, next_job, results, runs, yielded, dataset,
                   ix_batch, wk, assigned, earlier, popped, saved, fsops, calls, hist, pq>>

\* self.initialise()
Initialise ==
    /\ phase = "shuffled"
    /\ phase' = "initialised"
    /\ hist' = [hist EXCEPT !.initialise = @ + 1]
    /\ UNCHANGED <<cfg, universe, save_strategy, sub_from, sub_to, warnings, index, lock,
                   args, jobs, map_fn, pool_size, next_job, results, runs, yielded, dataset,
                   ix_batch, wk, assigned, earlier, popped, saved, fsops, calls, pq>>

\* the jobs execute submits under each strategy
JobsFor(strategy, pairs, subFrom, subTo) ==
    IF strategy = "pattern_batched"
    THEN PatternBatches(pairs, Get(subFrom), Get(subTo))
    ELSE FileJobs(pairs)

\* execute up to the start of the mapping loop: makedirs, build the argument
\* list, branch on the strategy, get_map_function(len(jobs))
ExecuteBegin ==
    /\ phase = "initialised"
    /\ phase' = "dispatch"
    /\ hist' = [hist EXCEPT !.execute = @ + 1]
    /\ fsops' = fsops \cup {"outdir"}
    /\ LET js == JobsFor(Get(save_strategy), args, sub_from, sub_to)
       IN  /\ jobs' = js
           /\ results' = [j \in 1..Len(js) |-> None]
           /\ runs' = [j \in 1..Len(js) |-> 0]
           /\ map_fn' = IF UsesPool(cfg.workers, Len(js)) THEN "imap" ELSE "map"
           /\ pool_size' = IF UsesPool(cfg.workers, Len(js))
                           THEN EffectiveWorkers(cfg.workers, Len(js)) ELSE 0
    /\ next_job' = 0
    /\ yielded' = <<>>
    /\ dataset' = <<>>
    /\ ix_batch' = 0
    /\ UNCHANGED <<cfg, universe, save_strategy, sub_from, sub_to, warnings, index, lock,
                   args, wk, assigned, earlier, popped, saved, calls, pq>>

(* ------------------- _process_file / _process_batch ------------------- *)
\* self._index = Value("i", 0) is a C int: its largest value is 2^31 - 1
IntMax == 2147483647

\* variant of IncrInt: the counter is advanced twice per event
IncrIntMut(v) == v + 2

\* the value the counter holds after self._index.value += 1: a C int wraps
IncrInt(v) == IF v = IntMax THEN (-IntMax) - 1 ELSE v + 1

\* variant of LockAvailable: the counter is used without taking its lock
LockAvailableMut == TRUE

\* self._index.get_lock() can be taken
LockAvailable == IsNone(lock)

\* the processes a job can be handed to: the pool's workers under imap; under
\* map the calling process, which computes an item when the loop asks for it.
\* The pool's workers are interchangeable, so of the idle ones the lowest
\* numbered stands for whichever takes the job.
CanTake(w) ==
    IF map_fn = "imap"
    THEN w \in 1..pool_size /\ \A v \in 1..(w - 1) : wk[v].pc # "idle"
    ELSE w = 0 /\ next_job = Len(yielded)

\* the pair a process is working on
CurrentPair(w) == jobs[wk[w].job].files[wk[w].fno]

SaveData(data, path, w) == saved (+) SetToBag({[path |-> path, data |-> data, by |-> w]})

\* a process takes the next job in submission order and opens its first file
StartJob(w) ==
    /\ phase = "dispatch"
    /\ wk[w].pc = "idle"
    /\ next_job < Len(jobs)
    /\ CanTake(w)
    /\ next_job' = next_job + 1
    /\ runs' = [runs EXCEPT ![next_job + 1] = @ + 1]
    /\ wk' = [wk EXCEPT ![w] = [IdleProc EXCEPT !.pc = "more", !.job = next_job + 1,
                                                !.fno = 1]]
    /\ UNCHANGED <<cfg, universe, phase, save_strategy, sub_from, sub_to, warnings, index,
                   lock, args, jobs, map_fn, pool_size, results, yielded, dataset, ix_batch,
                   assigned, earlier, popped, saved, fsops, calls, hist, pq>>

\* variant of PopFail: the loop does not continue after the failed read and
\* goes on to index a record for it
PopFailMut(w, maxRecords) ==
    /\ wk[w].pc = "more"
    /\ wk[w].pos < maxRecords
    /\ wk' = [wk EXCEPT ![w].pos = @ + 1, ![w].reads = Append(@, "bad"),
                         ![w].pc = "extracted"]
    /\ UNCHANGED <<cfg, universe, phase, save_strategy, sub_from, sub_to, warnings, index,
                   lock, args, jobs, map_fn, pool_size, next_job, results, runs, yielded,
                   dataset, ix_batch, assigned, earlier, popped, saved, fsops, calls,
                   hist, pq>>

\* more() is true and pop_physics() raises: except: continue
PopFail(w, maxRecords) ==
    /\ wk[w].pc = "more"
    /\ wk[w].pos < maxRecords
    /\ wk' = [wk EXCEPT ![w].pos = @ + 1, ![w].reads = Append(@, "bad")]
    /\ UNCHANGED <<cfg, universe, phase, save_strategy, sub_from, sub_to, warnings, index,
                   lock, args, jobs, map_fn, pool_size, next_job, results, runs, yielded,
                   dataset, ix_batch, assigned, earlier, popped, saved, fsops, calls,
                   hist, pq>>

\* more() is true, pop_physics() returns a frame, the extractors are applied
PopOk(w, maxRecords, maxEvents) ==
    /\ wk[w].pc = "more"
    /\ wk[w].pos < maxRecords
    /\ Cardinality(earlier) + popped < maxEvents
    /\ wk' = [wk EXCEPT ![w].pos = @ + 1, ![w].reads = Append(@, "ok"),
                         ![w].pc = "extracted"]
    /\ popped' = popped + 1
    /\ UNCHANGED <<cfg, universe, phase, save_strategy, sub_from, sub_to, warnings, index,
                   lock, args, jobs, map_fn, pool_size, next_job, results, runs, yielded,
                   dataset, ix_batch, assigned, earlier, saved, fsops, calls, hist, pq>>

\* with self._index.get_lock(): index = self._index.value
Acquire(w) ==
    /\ wk[w].pc = "extracted"
    /\ LockAvailable
    /\ lock' = Some(w)
    /\ wk' = [wk EXCEPT ![w].idx = index, ![w].pc = "locked"]
    /\ UNCHANGED <<cfg, universe, phase, save_strategy, sub_from, sub_to, warnings, index,
                   args, jobs, map_fn, pool_size, next_job, results, runs, yielded, dataset,
                   ix_batch, assigned, earlier, popped, saved, fsops, calls, hist, pq>>

\* self._table_names: the names of the extractors the instance was given
TableNames == {"truth", "pulses"}

\* variant of AttachIndex: each table gets the counter's current value, read
\* again after the increment, in place of the local variable
AttachIndexMut(tables, idx) ==
    [t \in tables |-> IF t = "truth" THEN idx ELSE IncrInt(index)]

\* for table in data_dict.keys(): data_dict[table][self._index_column] = index
AttachIndex(tables, idx) == [t \in tables |-> idx]

\* variant of AppendRecord: the record is put at the front of the list
AppendRecordMut(data, data_dict) == <<data_dict>> \o data

\* data.append(data_dict)
AppendRecord(data, data_dict) == Append(data, data_dict)

\* self._index.value += 1, leave the with block, attach the index to every
\* table of the record, data.append(data_dict)
Release(w) ==
    /\ wk[w].pc = "locked"
    /\ index' = IncrInt(index)
    /\ lock' = None
    /\ LET ev == [file |-> CurrentPair(w)[1], pos |-> wk[w].pos, index |-> wk[w].idx,
                  tables |-> AttachIndex(TableNames, wk[w].idx)]
       IN  /\ wk' = [wk EXCEPT ![w].data = AppendRecord(@, ev), ![w].pc = "more"]
           /\ assigned' = assigned \cup {ev}
    /\ UNCHANGED <<cfg, universe, phase, save_strategy, sub_from, sub_to, warnings, args,
                   jobs, map_fn, pool_size, next_job, results, runs, yielded, dataset,
                   ix_batch, earlier, popped, saved, fsops, calls, hist, pq>>

\* variant of SavesInProcessFile: the per-file processor saves under every
\* strategy
SavesInProcessFileMut(strategy) == TRUE

\* if self._save_strategy == "1:1": save_data(...); return
SavesInProcessFile(strategy) == strategy = "1:1"

\* more() is false: the while loop ends.  Under 1:1 the file's data is saved
\* and None returned; otherwise the data is returned, and _process_batch goes
\* on with the group's next file or, after the last, saves the group's data.
Exhausted(w) ==
    /\ wk[w].pc = "more"
    /\ hist' = [hist EXCEPT !.done = @ \cup {CurrentPair(w)[1]}]
    /\ LET j == wk[w].job
           data == wk[w].data
           batch == wk[w].batch \o data
       IN  IF SavesInProcessFile(Get(save_strategy))
           THEN /\ saved' = SaveData(data, GetOutputFile(CurrentPair(w)[1]), w)
                /\ results' = [results EXCEPT ![j] = Some([none |-> TRUE, data |-> <<>>])]
                /\ wk' = [wk EXCEPT ![w] = IdleProc]
           ELSE IF Get(save_strategy) = "sequential_batched"
           THEN /\ results' = [results EXCEPT ![j] = Some([none |-> FALSE, data |-> data])]
                /\ wk' = [wk EXCEPT ![w] = IdleProc]
                /\ saved' = saved
           ELSE IF wk[w].fno < Len(jobs[j].files)
           THEN /\ wk' = [wk EXCEPT ![w].fno = @ + 1, ![w].pos = 0, ![w].reads = <<>>, ![w].data = <<>>,
                                    ![w].batch = batch]
                /\ UNCHANGED <<results, saved>>
           ELSE /\ saved' = SaveData(batch, GetOutputFile(Get(jobs[j].name)), w)
                /\ results' = [results EXCEPT ![j] = Some([none |-> FALSE, data |-> batch])]
                /\ wk' = [wk EXCEPT ![w] = IdleProc]
    /\ UNCHANGED <<cfg, universe, phase, save_strategy, sub_from, sub_to, warnings, index,
                   lock, args, jobs, map_fn, pool_size, next_job, runs, yielded, dataset,
                   ix_batch, assigned, earlier, popped, fsops, calls, pq>>

(* --------------------- interrupts and exceptions ---------------------- *)
\* most interrupt signals delivered during one call
MaxInterrupts == 1

\* the calling process does the work itself (map) and can take a signal
CanInterrupt ==
    /\ phase = "dispatch"
    /\ map_fn = "map"
    /\ hist.sigint < MaxInterrupts

\* SIGINT arrives while the calling process is inside pop_physics(): the
\* KeyboardInterrupt is raised inside the try block when the call returns and
\* the bare except takes it: continue.  The frame that was read is dropped.
InterruptInRead(maxRecords) ==
    /\ CanInterrupt
    /\ wk[0].pc = "more"
    /\ wk[0].pos < maxRecords
    /\ wk' = [wk EXCEPT ![0].pos = @ + 1, ![0].reads = Append(@, "bad")]
    /\ hist' = [hist EXCEPT !.sigint = @ + 1]
    /\ UNCHANGED <<cfg, universe, phase, save_strategy, sub_from, sub_to, warnings, index,
                   lock, args, jobs, map_fn, pool_size, next_job, results, runs, yielded,
                   dataset, ix_batch, assigned, earlier, popped, saved, fsops, calls, pq>>

\* SIGINT arrives while the calling process is anywhere else in the loop: the
\* KeyboardInterrupt unwinds _process_file (a held lock is released by the
\* with statement) and the mapping loop, whose locals are dropped, and
\* execute's except KeyboardInterrupt logs a warning; execute returns.
InterruptCaught ==
    /\ CanInterrupt
    /\ phase' = "interrupted"
    /\ wk' = [wk EXCEPT ![0] = IdleProc]
    /\ lock' = None
    /\ dataset' = <<>>
    /\ hist' = [hist EXCEPT !.sigint = @ + 1, !.caught = TRUE]
    /\ UNCHANGED <<cfg, universe, save_strategy, sub_from, sub_to, warnings, index, args,
                   jobs, map_fn, pool_size, next_job, results, runs, yielded, ix_batch,
                   assigned, earlier, popped, saved, fsops, calls, pq>>

\* an exception other than KeyboardInterrupt leaves _process_file in the
\* calling process: nothing between there and the caller of __call__ catches
\* it, so the call ends with the exception
Propagate(file) ==
    /\ phase' = "raised"
    /\ wk' = [wk EXCEPT ![0] = IdleProc]
    /\ dataset' = <<>>
    /\ hist' = [hist EXCEPT !.failed = @ \cup {file}]

\* dataio.I3File(i3_file, "r") raises: a process at the start of a file has
\* yet to open it
OpenFail ==
    /\ phase = "dispatch"
    /\ map_fn = "map"
    /\ wk[0].pc = "more"
    /\ wk[0].pos = 0
    /\ Propagate(CurrentPair(0)[1])
    /\ UNCHANGED <<cfg, universe, save_strategy, sub_from, sub_to, warnings, index, lock,
                   args, jobs, map_fn, pool_size, next_job, results, runs, yielded, ix_batch,
                   assigned, earlier, popped, saved, fsops, calls, pq>>

\* pop_physics() returns a frame and self._extractors(frame) raises
ExtractFail(maxRecords) ==
    /\ phase = "dispatch"
    /\ map_fn = "map"
    /\ wk[0].pc = "more"
    /\ wk[0].pos < maxRecords
    /\ popped' = popped + 1
    /\ Propagate(CurrentPair(0)[1])
    /\ UNCHANGED <<cfg, universe, save_strategy, sub_from, sub_to, warnings, index, lock,
                   args, jobs, map_fn, pool_size, next_job, results, runs, yielded, ix_batch,
                   assigned, earlier, saved, fsops, calls, pq>>

(* ------------------------- the mapping loops -------------------------- *)
\* variant of Yieldable: results are yielded as they complete
YieldableMut(j) ==
    /\ j <= Len(jobs)
    /\ ~IsNone(results[j])
    /\ \A k \in 1..Len(yielded) : yielded[k] # j

\* the result the map function yields next: map and imap keep submission order
Yieldable(j) == j = Len(yielded) + 1 /\ j <= Len(jobs) /\ ~IsNone(results[j])

\* variant of BatchIsFull: the enumeration index is used as a count
BatchIsFullMut(ix, nb) == ix % nb = 0

\* if (ix + 1) % self._nb_files_to_batch == 0
BatchIsFull(ix, nb) == (ix + 1) % nb = 0

\* variant of HasRemainder: a single record left over is not saved
HasRemainderMut(ds) == Len(ds) > 1

\* if len(dataset) > 0, after the loop
HasRemainder(ds) == Len(ds) > 0

\* one iteration of the for loop over map_fn(...): the next result is yielded
\* and the loop body runs (only the sequential batching loop has one)
Consume ==
    /\ phase = "dispatch"
    /\ \E j \in 1..Len(jobs) :
          /\ Yieldable(j)
          /\ yielded' = Append(yielded, j)
          /\ IF Get(save_strategy) = "sequential_batched"
             THEN LET ds == dataset \o Get(results[j]).data
                      ix == Len(yielded)
                  IN  IF BatchIsFull(ix, Get(cfg.nb))
                      THEN /\ saved' = SaveData(ds, GetOutputFile(Format(Get(cfg.seq), ix_batch)), 0)
                           /\ ix_batch' = ix_batch + 1
                           /\ dataset' = <<>>
                      ELSE /\ dataset' = ds
                           /\ UNCHANGED <<saved, ix_batch>>
             ELSE UNCHANGED <<saved, ix_batch, dataset>>
    /\ UNCHANGED <<cfg, universe, phase, save_strategy, sub_from, sub_to, warnings, index,
                   lock, args, jobs, map_fn, pool_size, next_job, results, runs, wk,
                   assigned, earlier, popped, fsops, calls, hist, pq>>

\* variant of LoopExhausted: execute returns without draining the iterator
\* the map function gave it
LoopExhaustedMut(n_yielded, n_jobs) == TRUE

\* the for loop over map_fn(...) ends when the iterator has yielded a result
\* for every item submitted
LoopExhausted(n_yielded, n_jobs) == n_yielded = n_jobs

\* the loop is exhausted: the sequential batching loop saves what is left in
\* dataset; execute returns
ExecuteEnd ==
    /\ phase = "dispatch"
    /\ LoopExhausted(Len(yielded), Len(jobs))
    /\ phase' = "executed"
    /\ IF Get(save_strategy) = "sequential_batched" /\ HasRemainder(dataset)
       THEN saved' = SaveData(dataset, GetOutputFile(Format(Get(cfg.seq), ix_batch)), 0)
       ELSE saved' = saved
    /\ dataset' = <<>>
    /\ UNCHANGED <<cfg, universe, save_strategy, sub_from, sub_to, warnings, index, lock,
                   args, jobs, map_fn, pool_size, next_job, results, runs, yielded, ix_batch,
                   wk, assigned, earlier, popped, fsops, calls, hist, pq>>

\* execute has returned, at the end of its loop or from its except clause:
\* self.finalise(); __call__ returns
Finalise ==
    /\ phase \in {"executed", "interrupted"}
    /\ phase' = "idle"
    /\ hist' = [hist EXCEPT !.finalise = @ + 1]
    /\ UNCHANGED <<cfg, universe, save_strategy, sub_from, sub_to, warnings, index, lock,
                   args, jobs, map_fn, pool_size, next_job, results, runs, yielded, dataset,
                   ix_batch, wk, assigned, earlier, popped, saved, fsops, calls, pq>>

(* --------------------------- specifications --------------------------- *)
Next ==
    \/ Construct
    \/ CallFind(MaxFiles, MaxCalls)
    \/ SaveFilenames
    \/ Shuffle
    \/ Initialise
    \/ ExecuteBegin
    \/ \E w \in Procs : StartJob(w)
    \/ \E w \in Procs : PopFail(w, MaxRecords)
    \/ \E w \in Procs : PopOk(w, MaxRecords, MaxEvents)
    \/ \E w \in Procs : Acquire(w)
    \/ \E w \in Procs : Release(w)
    \/ \E w \in Procs : Exhausted(w)
    \/ Consume
    \/ ExecuteEnd
    \/ Finalise

Spec == Init /\ [][Next]_vars

(* ------------- strategy inference over a wide input range ------------- *)
PatternChars == {"a", ".", "*"}

\* all strings over PatternChars of length at most n
StringsUpTo(n) == UNION {[1..k -> PatternChars] : k \in 0..n}

InferConfigs ==
    {[nb |-> nb, seq |-> seq, pat |-> pat, workers |-> 1] :
        nb \in {None, Some(1), Some(2)},
        seq \in {None, Some(SeqPattern)},
        pat \in {None} \cup {Some(q) : q \in StringsUpTo(MaxPatLen)}}

InitInfer == \E c \in InferConfigs : InitWith(c, {})

NextInfer == Construct

SpecInfer == InitInfer /\ [][NextInfer]_vars

(* ------------------ grouping over realistic file names ---------------- *)
\* most files one call discovers when grouping is checked
MaxGroupFiles == 3

Run1Part1 == <<"r", "u", "n", "1", "_", "p", "a", "r", "t", "1", ".", "i", "3">>
Run1Part2 == <<"r", "u", "n", "1", "_", "p", "a", "r", "t", "2", ".", "i", "3">>
Run2Part1 == <<"r", "u", "n", "2", "_", "p", "a", "r", "t", "1", ".", "i", "3">>
Run3 == <<"r", "u", "n", "3", ".", "i", "3">>
DirRun1Part1 == <<"z", "/">> \o Run1Part1

GroupUniverse == {Run1Part1, Run1Part2, Run2Part1, Run3, DirRun1Part1}

\* "run*_part*.i3"
RunPartPattern == <<"r", "u", "n", "*", "_", "p", "a", "r", "t", "*", ".", "i", "3">>
\* "_part*.i3"
PartPattern == <<"_", "p", "a", "r", "t", "*", ".", "i", "3">>

GroupConfigs ==
    {[nb |-> None, seq |-> None, pat |-> Some(q), workers |-> 1] :
        q \in {RunPartPattern, PartPattern}}

InitGroup == \E c \in GroupConfigs : InitWith(c, GroupUniverse)

NextGroup ==
    \/ Construct
    \/ CallFind(MaxGroupFiles, MaxCalls)
    \/ SaveFilenames
    \/ Shuffle
    \/ Initialise
    \/ ExecuteBegin

SpecGroup == InitGroup /\ [][NextGroup]_vars

(* ---------------- one file at a time, longer files -------------------- *)
\* most records one event file holds when files are processed one at a time
MaxFileRecords == 3
\* most calls made on the instance when files are processed one at a time
MaxFileCalls == 1

FileConfigs ==
    {[nb |-> c[1], seq |-> c[2], pat |-> c[3], workers |-> 1] :
        c \in {<<None, None, None>>,
               <<Some(1), Some(SeqPattern), None>>,
               <<Some(2), Some(SeqPattern), None>>,
               <<None, None, Some(<<"a", "*">>)>>}}

InitFile == \E c \in FileConfigs : InitWith(c, {<<"a", "1">>, <<"a", "2">>})

NextFile ==
    \/ Construct
    \/ CallFind(MaxFiles, MaxFileCalls)
    \/ SaveFilenames
    \/ Shuffle
    \/ Initialise
    \/ ExecuteBegin
    \/ \E w \in Procs : StartJob(w)
    \/ \E w \in Procs : PopFail(w, MaxFileRecords)
    \/ \E w \in Procs : PopOk(w, MaxFileRecords, MaxFiles * MaxFileRecords)
    \/ \E w \in Procs : Acquire(w)
    \/ \E w \in Procs : Release(w)
    \/ \E w \in Procs : Exhausted(w)
    \/ Consume
    \/ ExecuteEnd
    \/ Finalise

SpecFile == InitFile /\ [][NextFile]_vars

\* the calling process runs without pause: a step that can be taken is taken
FairSpecFile == SpecFile /\ WF_vars(NextFile)

(* ======================= properties of the index ====================== *)
Indices == {e.index : e \in assigned}

\* C1: under any interleaving of the per-file processors no two events get
\* the same index, in this call or an earlier one of the instance; a process
\* between its read of the counter and its increment holds the lock, and the
\* value it read is still the counter's value.
C1_UniqueIndex ==
    /\ \A e1, e2 \in assigned : e1.index = e2.index => e1 = e2
    /\ \A e \in assigned : e.index \notin earlier
    /\ \A w \in Procs : wk[w].pc = "locked" => lock = Some(w) /\ wk[w].idx = index

\* in a call that follows one which indexed events, a pool worker holds the
\* lock while another one waits for it with a frame
C1_Witness ==
    /\ earlier # {}
    /\ \E w1, w2 \in Procs :
          w1 # w2 /\ wk[w1].pc = "locked" /\ wk[w2].pc = "extracted"

\* C2 as stated: at the end of every complete run the indices assigned in the
\* run are exactly 0 .. total_events-1, total_events being the frames read.
C2_Original ==
    phase = "executed" => /\ Indices = 0..(popped - 1)
                          /\ Cardinality(assigned) = popped

\* C2 amended: at the end of a complete run the indices assigned in the run
\* are the total_events consecutive values that start at the number of events
\* indexed by earlier calls of the instance (0 for its first call); a skipped
\* record consumes none.
C2_ContiguousIndices ==
    phase = "executed" =>
        /\ Indices = Cardinality(earlier)..(Cardinality(earlier) + popped - 1)
        /\ Cardinality(assigned) = popped
        /\ index = Cardinality(earlier) + popped
        /\ calls = 1 => Indices = 0..(popped - 1)

\* a second complete run, dispatched over a pool, after a first one that
\* indexed events
C2_Witness ==
    /\ phase = "executed"
    /\ calls = 2
    /\ earlier # {}
    /\ popped >= 2
    /\ map_fn = "imap"

(* ==================== properties of the constructor =================== *)
\* C3: a construction that does not raise selects exactly one of the three
\* strategies: pattern_batched whenever a wildcard pattern is given (the other
\* two options are then ignored with a warning each), else sequential_batched
\* when both sequential options are given, else 1:1 when none is given; the
\* last two combinations never raise.
C3_StrategyInference ==
    /\ phase = "idle" =>
          /\ ~IsNone(save_strategy)
          /\ Get(save_strategy) \in SAVE_STRATEGIES
          /\ ~IsNone(cfg.pat) =>
                /\ Get(save_strategy) = "pattern_batched"
                /\ ("nb_files_to_batch ignored" \in warnings) = ~IsNone(cfg.nb)
                /\ ("sequential_batch_pattern ignored" \in warnings) = ~IsNone(cfg.seq)
          /\ (IsNone(cfg.pat) /\ ~IsNone(cfg.nb) /\ ~IsNone(cfg.seq)) =>
                Get(save_strategy) = "sequential_batched"
          /\ (IsNone(cfg.pat) /\ IsNone(cfg.nb) /\ IsNone(cfg.seq)) =>
                Get(save_strategy) = "1:1"
    /\ phase = "ctor_failed" =>
          /\ IsNone(save_strategy)
          /\ ~(IsNone(cfg.pat) /\ (IsNone(cfg.nb) = IsNone(cfg.seq)))
          /\ ~IsNone(cfg.pat) => ~Contains(Get(cfg.pat), "*")

\* a pattern is given together with both sequential options
C3_Witness ==
    /\ phase = "idle"
    /\ ~IsNone(cfg.pat) /\ ~IsNone(cfg.nb) /\ ~IsNone(cfg.seq)
    /\ save_strategy = Some("pattern_batched")
    /\ Cardinality(warnings) = 2

ExactlyOneSequential == IsNone(cfg.pat) /\ (IsNone(cfg.nb) # IsNone(cfg.seq))

\* C4: with no wildcard pattern and exactly one of nb_files_to_batch and
\* sequential_batch_pattern, construction fails: no strategy is set, and no
\* call, file discovery, directory creation or save ever happens.
C4_IncompleteConfiguration ==
    ExactlyOneSequential =>
        /\ phase \in {"new", "ctor_failed"}
        /\ IsNone(save_strategy)
        /\ calls = 0
        /\ fsops = {}
        /\ saved = EmptyBag
        /\ assigned = {}

C4_Witness == ExactlyOneSequential /\ phase = "ctor_failed"

NoWildcardGiven == ~IsNone(cfg.pat) /\ ~Contains(Get(cfg.pat), "*")

\* C5: a pattern without "*" makes construction fail and no strategy is
\* selected, whatever the two sequential options are.
C5_InvalidPattern ==
    NoWildcardGiven =>
        /\ phase \in {"new", "ctor_failed"}
        /\ IsNone(save_strategy)
        /\ IsNone(sub_from)
        /\ IsNone(sub_to)

\* the failure with both sequential options given
C5_Witness ==
    /\ NoWildcardGiven
    /\ ~IsNone(cfg.nb) /\ ~IsNone(cfg.seq)
    /\ phase = "ctor_failed"

(* ======================== properties of grouping ====================== *)
PairOf(path) == <<path, Gcd>>

\* the call found exactly the three files of the example, the pattern is
\* "run*_part*.i3", and execute has grouped them
C6_Case ==
    /\ phase = "dispatch"
    /\ cfg.pat = Some(RunPartPattern)
    /\ Len(args) = 3
    /\ {args[k][1] : k \in 1..Len(args)} = {Run1Part1, Run1Part2, Run2Part1}

\* C6 as stated: the three files fall into two groups in first-seen order, the
\* two run1 files and then the run2 file, under distinct keys.
C6_Original ==
    C6_Case =>
        /\ Len(jobs) = 2
        /\ jobs[1].files = <<PairOf(Run1Part1), PairOf(Run1Part2)>>
        /\ jobs[2].files = <<PairOf(Run2Part1)>>
        /\ jobs[1].name # jobs[2].name

\* C6 amended: with "run*_part*.i3" the three files form one group, keyed
\* "runx_partx.i3", in ascending path order whatever the shuffle was (what a
\* wildcard matches is dropped from the key, so distinct runs collide); the
\* two groups of the example are what the pattern "_part*.i3" yields.
C6_OneGroup ==
    /\ C6_Case =>
          /\ Len(jobs) = 1
          /\ jobs[1].files = <<PairOf(Run1Part1), PairOf(Run1Part2), PairOf(Run2Part1)>>
          /\ jobs[1].name = Some(<<"r", "u", "n", "x", "_", "p", "a", "r", "t", "x", ".", "i", "3">>)
    /\ (/\ phase = "dispatch"
        /\ cfg.pat = Some(PartPattern)
        /\ {args[k][1] : k \in 1..Len(args)} = {Run1Part1, Run1Part2, Run2Part1}) =>
          /\ Len(jobs) = 2
          /\ jobs[1].files = <<PairOf(Run1Part1), PairOf(Run1Part2)>>
          /\ jobs[2].files = <<PairOf(Run2Part1)>>
          /\ jobs[1].name # jobs[2].name

\* the three files were grouped after a shuffle that put the run2 file first
C6_Witness == C6_Case /\ args[1][1] = Run2Part1 /\ Len(jobs) = 1

\* C7: under the pattern strategy a file whose basename the pattern does not
\* match is never placed in a group (grouping is to fail for it instead).
C7_MismatchRejected ==
    (phase = "dispatch" /\ save_strategy = Some("pattern_batched")) =>
        \A j \in 1..Len(jobs) : \A k \in 1..Len(jobs[j].files) :
            ReMatches(Get(sub_from), Basename(jobs[j].files[k][1]))

(* ===================== properties of the map function ================= *)
\* the files of the events in a processor's return value
FilesIn(result) == {result.data[k].file : k \in 1..Len(result.data)}

\* C8: in both modes the processor is applied to a job at most once, the k-th
\* result yielded is the result of the k-th job submitted, and when the loop
\* is over every job has been processed exactly once and yielded.
C8_ExactlyOnceInOrder ==
    /\ \A j \in 1..Len(runs) : runs[j] <= 1
    /\ \A k \in 1..Len(yielded) :
          /\ yielded[k] = k
          /\ runs[k] = 1
          /\ ~IsNone(results[k])
    /\ \A j \in 1..Len(results) :
          ~IsNone(results[j]) =>
              FilesIn(Get(results[j])) \subseteq {jobs[j].files[k][1] : k \in 1..Len(jobs[j].files)}
    /\ phase = "executed" =>
          /\ Len(yielded) = Len(jobs)
          /\ \A j \in 1..Len(jobs) : runs[j] = 1

\* a loop over a pool with several jobs has ended
C8_Witness ==
    /\ phase = "executed"
    /\ map_fn = "imap"
    /\ Len(jobs) >= 2
    /\ popped >= 2

\* C9: a pool is used exactly when more than one worker is requested and
\* there is more than one job; it then has as many processes as the smaller
\* of the two numbers and the calling process maps nothing itself; otherwise
\* no pool is started and only the calling process works.
C9_PoolIffSeveralWorkers ==
    map_fn # "none" =>
        /\ (map_fn = "imap") = (cfg.workers > 1 /\ Len(jobs) > 1)
        /\ map_fn = "imap" =>
              /\ pool_size = (IF cfg.workers < Len(jobs) THEN cfg.workers ELSE Len(jobs))
              /\ wk[0].pc = "idle"
              /\ \A w \in Procs : w > pool_size => wk[w].pc = "idle"
        /\ map_fn = "map" =>
              /\ pool_size = 0
              /\ \A w \in Procs : w # 0 => wk[w].pc = "idle"

\* every process of a pool is at work
C9_Witness ==
    /\ map_fn = "imap"
    /\ pool_size > 1
    /\ \A w \in 1..pool_size : wk[w].pc # "idle"

(* =================== properties of the per-file loop ================== *)
RECURSIVE OkPositions(_, _)
OkPositions(reads, k) ==
    IF k > Len(reads) THEN <<>>
    ELSE (IF reads[k] = "ok" THEN <<k>> ELSE <<>>) \o OkPositions(reads, k + 1)

PositionsOf(data) == [k \in 1..Len(data) |-> data[k].pos]

\* the records of the open file that are in data or on their way into it
Collected(w) ==
    IF wk[w].pc \in {"extracted", "locked"}
    THEN Append(PositionsOf(wk[w].data), wk[w].pos)
    ELSE PositionsOf(wk[w].data)

\* what the processor has collected is the readable records read so far, in
\* read order, and nothing else
C10_DataIsReadable ==
    \A w \in Procs :
        wk[w].pc # "idle" =>
            /\ Len(wk[w].reads) = wk[w].pos
            /\ Collected(w) = OkPositions(wk[w].reads, 1)
            /\ \A k \in 1..Len(wk[w].data) : wk[w].data[k].file = CurrentPair(w)[1]

\* when the file is exhausted the collected list is what is returned (saved
\* under 1:1), one record shorter than the file for each failed read
C10_ReturnsCollected ==
    \A w \in Procs :
        (wk[w].pc = "more" /\ wk'[w].pc = "idle") =>
            /\ Len(wk[w].data) = Len(OkPositions(wk[w].reads, 1))
            /\ Get(save_strategy) = "sequential_batched" =>
                  results'[wk[w].job] = Some([none |-> FALSE, data |-> wk[w].data])
            /\ Get(save_strategy) = "1:1" =>
                  /\ results'[wk[w].job] = Some([none |-> TRUE, data |-> <<>>])
                  /\ \E r \in BagToSet(saved') : r.data = wk[w].data /\ r \notin BagToSet(saved)
            /\ Get(save_strategy) = "pattern_batched" =>
                  Get(results'[wk[w].job]).data = wk[w].batch \o wk[w].data

\* C10: a failed read skips exactly that record: the processor collects and
\* returns the readable records in read order whatever number of reads failed
\* and wherever (n-1 records for a file of n with one unreadable), and every
\* mapping loop over such files comes to its end.
C10_SkipUnreadable ==
    /\ []C10_DataIsReadable
    /\ [][C10_ReturnsCollected]_vars
    /\ (phase = "dispatch") ~> (phase = "executed")

\* a file of three records whose middle one was unreadable has been returned:
\* the first and the third record, in this order
C10_Witness ==
    \E j \in 1..Len(results) :
        /\ ~IsNone(results[j])
        /\ PositionsOf(Get(results[j]).data) = <<1, 3>>

(* ================ properties of the sequential batching =============== *)
\* most files one call discovers when sequential batching is checked
MaxSeqFiles == 3

SeqConfigs ==
    {[nb |-> Some(b), seq |-> Some(SeqPattern), pat |-> None, workers |-> w] :
        b \in 1..2, w \in 1..MaxWorkers}

InitSeq == \E c \in SeqConfigs : InitWith(c, Universe)

\* one call on a fresh instance
NextSeq ==
    \/ Construct
    \/ CallFind(MaxSeqFiles, 1)
    \/ SaveFilenames
    \/ Shuffle
    \/ Initialise
    \/ ExecuteBegin
    \/ \E w \in Procs : StartJob(w)
    \/ \E w \in Procs : PopFail(w, MaxRecords)
    \/ \E w \in Procs : PopOk(w, MaxRecords, MaxSeqFiles * MaxRecords)
    \/ \E w \in Procs : Acquire(w)
    \/ \E w \in Procs : Release(w)
    \/ \E w \in Procs : Exhausted(w)
    \/ Consume
    \/ ExecuteEnd
    \/ Finalise

SpecSeq == InitSeq /\ [][NextSeq]_vars

CeilDiv(n, b) == (n + b - 1) \div b

\* the records the processor returned for the files (1-based) from..to
RECURSIVE RecordsOf(_, _)
RecordsOf(from, to) ==
    IF from > to THEN <<>> ELSE Get(results[from]).data \o RecordsOf(from + 1, to)

\* what flush k (0-based) of a run over n files with batch size b holds
FlushContent(k, n, b) == RecordsOf(k * b + 1, Min((k + 1) * b, n))

\* the save_data calls that went to the output file of sequence batch k
FlushesTo(k) ==
    {s \in BagToSet(saved) : s.path = GetOutputFile(Format(Get(cfg.seq), k))}

\* flush k happened exactly once, from the calling process, with this content
FlushedOnce(k, content) ==
    /\ FlushesTo(k) = {[path |-> GetOutputFile(Format(Get(cfg.seq), k)), data |-> content, by |-> 0]}
    /\ \A s \in FlushesTo(k) : CopiesIn(s, saved) = 1

SeqRunComplete == phase = "executed" /\ Get(save_strategy) = "sequential_batched"

\* C11 as stated: a complete sequential run over n files with batch size b
\* performs exactly ceil(n/b) flushes, flush k holding the records of files
\* k*b .. min((k+1)*b, n)-1 in submission order, whatever the files yield.
C11_Original ==
    SeqRunComplete =>
        LET n == Len(jobs)
            b == Get(cfg.nb)
        IN  /\ BagCardinality(saved) = CeilDiv(n, b)
            /\ \A k \in 0..(CeilDiv(n, b) - 1) : FlushedOnce(k, FlushContent(k, n, b))

\* C11 amended: there is one flush for each of the n div b full batches,
\* whatever its files yield (also nothing), and one more for the trailing
\* partial batch exactly when its files yielded at least one record; flush k
\* holds the records of files k*b .. min((k+1)*b, n)-1 in submission order.
C11_FlushPerBatch ==
    SeqRunComplete =>
        LET n == Len(jobs)
            b == Get(cfg.nb)
            full == n \div b
            trailing == n % b # 0 /\ FlushContent(full, n, b) # <<>>
        IN  /\ BagCardinality(saved) = full + (IF trailing THEN 1 ELSE 0)
            /\ \A k \in 0..(full - 1) : FlushedOnce(k, FlushContent(k, n, b))
            /\ trailing => FlushedOnce(full, FlushContent(full, n, b))
            /\ ~trailing => FlushesTo(full) = {}

\* three files batched by two: a full batch and a trailing one, both flushed
C11_Witness ==
    /\ SeqRunComplete
    /\ Len(jobs) = 3
    /\ Get(cfg.nb) = 2
    /\ BagCardinality(saved) = 2
    /\ popped = 3

(* ==================== properties of the orchestrator ================== *)
\* a call has returned after discovering no event file
ReturnedEmpty == phase = "idle" /\ calls > 0 /\ args = <<>>

\* the step of a call that discovers no event file leaves everything but the
\* discovery itself untouched
EmptyCallStep ==
    (calls' = calls + 1 /\ args' = <<>>) =>
        /\ phase' = "idle"
        /\ fsops' \ {"find"} = fsops \ {"find"}
        /\ index' = index
        /\ lock' = lock
        /\ saved' = EmptyBag
        /\ hist' = HistInit

\* C12: a call that discovers no event file returns normally in one step:
\* it writes no provenance file, creates no output directory or file, leaves
\* the index counter unchanged, and invokes none of initialise, execute,
\* save_data and finalise.
C12_NoFilesNoEffects ==
    /\ [](ReturnedEmpty => hist = HistInit /\ saved = EmptyBag)
    /\ [][EmptyCallStep]_vars

\* the first call of an instance found nothing: only the discovery took place
C12_Witness == ReturnedEmpty /\ fsops = {"find"} /\ index = 0

(* ------------------ a call that takes an interrupt -------------------- *)
\* constructor arguments when the calling process does all the work
SoloConfigs ==
    {[nb |-> c[1], seq |-> c[2], pat |-> c[3], workers |-> 1] :
        c \in {<<None, None, None>>,
               <<Some(2), Some(SeqPattern), None>>,
               <<None, None, Some(<<"a", "*">>)>>}}

InitSolo == \E c \in SoloConfigs : InitWith(c, Universe)

NextInterrupt ==
    \/ Construct
    \/ CallFind(MaxFiles, MaxFileCalls)
    \/ SaveFilenames
    \/ Shuffle
    \/ Initialise
    \/ ExecuteBegin
    \/ \E w \in Procs : StartJob(w)
    \/ \E w \in Procs : PopFail(w, MaxRecords)
    \/ \E w \in Procs : PopOk(w, MaxRecords, MaxFiles * MaxRecords)
    \/ \E w \in Procs : Acquire(w)
    \/ \E w \in Procs : Release(w)
    \/ \E w \in Procs : Exhausted(w)
    \/ InterruptInRead(MaxRecords)
    \/ InterruptCaught
    \/ Consume
    \/ ExecuteEnd
    \/ Finalise

SpecInterrupt == InitSolo /\ [][NextInterrupt]_vars

(* ------------------- a call in which a file fails --------------------- *)
NextError ==
    \/ Construct
    \/ CallFind(MaxFiles, MaxFileCalls)
    \/ SaveFilenames
    \/ Shuffle
    \/ Initialise
    \/ ExecuteBegin
    \/ \E w \in Procs : StartJob(w)
    \/ \E w \in Procs : PopFail(w, MaxRecords)
    \/ \E w \in Procs : PopOk(w, MaxRecords, MaxFiles * MaxRecords)
    \/ \E w \in Procs : Acquire(w)
    \/ \E w \in Procs : Release(w)
    \/ \E w \in Procs : Exhausted(w)
    \/ OpenFail
    \/ ExtractFail(MaxRecords)
    \/ Consume
    \/ ExecuteEnd
    \/ Finalise

SpecError == InitSolo /\ [][NextError]_vars

(* ============== properties of interrupts and file errors ============== *)
\* a step that delivers an interrupt
InterruptArrives == hist'.sigint > hist.sigint

\* C13: an interrupt that arrives during dispatch, also while a record is
\* being read, moves the run to Aborted (execute returns from its except
\* clause); what was accumulated and not flushed is discarded, not saved; and
\* after an interrupt the call extracts no further record and makes no further
\* save_data call.
C13_InterruptAborts ==
    /\ [][InterruptArrives => phase' = "interrupted" /\ dataset' = <<>> /\ saved' = saved]_vars
    /\ [][(hist.sigint > 0 /\ calls' = calls) => popped' = popped /\ saved' = saved]_vars

\* a call has returned to its caller
CallReturned == phase = "idle" /\ calls > 0

\* the run was Aborted: it found no files, or execute caught an interrupt
Aborted == args = <<>> \/ hist.caught

\* C14: finalise never runs twice in a call, and when the call has returned
\* it has run exactly once if the run found files and was not aborted, and
\* not at all if the run was Aborted.
C14_FinaliseUnlessAborted ==
    /\ hist.finalise <= 1
    /\ CallReturned => hist.finalise = (IF Aborted THEN 0 ELSE 1)

\* a call has ended, by returning or with an exception
CallEnded == CallReturned \/ phase = "raised"

\* C16: when a call has ended, every file of the run that did not itself fail
\* (on being opened or in the extraction of a record) has been processed to
\* its end, and every record indexed for such a file has been saved.
C16_SiblingsSurvive ==
    CallEnded =>
        /\ \A k \in 1..Len(args) : args[k][1] \notin hist.failed => args[k][1] \in hist.done
        /\ \A e \in assigned :
              e.file \notin hist.failed =>
                  \E sv \in BagToSet(saved) : \E i \in 1..Len(sv.data) : sv.data[i] = e

(* ==================== properties of the output paths ================== *)
\* event files found under two input directories: "a1", "z/a1" and "b1"
PathUniverse == {<<"a", "1">>, <<"z", "/", "a", "1">>, <<"b", "1">>}

PathConfigs ==
    {[nb |-> c.nb, seq |-> c.seq, pat |-> c.pat, workers |-> w] :
        c \in SoloConfigs, w \in 1..MaxWorkers}

InitPath == \E c \in PathConfigs : InitWith(c, PathUniverse)

NextPath ==
    \/ Construct
    \/ CallFind(MaxFiles, MaxFileCalls)
    \/ SaveFilenames
    \/ Shuffle
    \/ Initialise
    \/ ExecuteBegin
    \/ \E w \in Procs : StartJob(w)
    \/ \E w \in Procs : PopFail(w, MaxRecords)
    \/ \E w \in Procs : PopOk(w, MaxRecords, MaxFiles * MaxRecords)
    \/ \E w \in Procs : Acquire(w)
    \/ \E w \in Procs : Release(w)
    \/ \E w \in Procs : Exhausted(w)
    \/ Consume
    \/ ExecuteEnd
    \/ Finalise

SpecPath == InitPath /\ [][NextPath]_vars

\* C15: in a run no output path is written by two flush units: no two
\* save_data calls of the run name the same output path.
C15_DistinctOutputPaths ==
    /\ \A sv \in BagToSet(saved) : CopiesIn(sv, saved) = 1
    /\ \A s1, s2 \in BagToSet(saved) : s1.path = s2.path => s1 = s2

(* ================= properties of the counter's width ================== *)
\* an instance built from c that has indexed `count` events in calls made
\* before the ones followed here; the histories of those calls are not kept
Constructed(c, u, count) ==
    LET r == InferSaveStrategy(c.nb, c.seq, c.pat)
    IN  /\ cfg = c
        /\ universe = u
        /\ phase = "idle"
        /\ save_strategy = r.strategy
        /\ sub_from = r.sub_from
        /\ sub_to = r.sub_to
        /\ warnings = r.warnings
        /\ index = count
        /\ lock = None
        /\ args = <<>>
        /\ jobs = <<>>
        /\ map_fn = "none"
        /\ pool_size = 0
        /\ next_job = 0
        /\ results = <<>>
        /\ runs = <<>>
        /\ yielded = <<>>
        /\ dataset = <<>>
        /\ ix_batch = 0
        /\ wk = [w \in Procs |-> IdleProc]
        /\ assigned = {}
        /\ earlier = {}
        /\ popped = 0
        /\ saved = EmptyBag
        /\ fsops = {}
        /\ calls = 0
        /\ hist = HistInit
        /\ pq = PqNone

\* the instance has indexed all but two of the values a C int can count
InitWrap == \E c \in SoloConfigs : Constructed(c, Universe, IntMax - 1)

NextWrap ==
    \/ CallFind(MaxFiles, MaxFileCalls)
    \/ SaveFilenames
    \/ Shuffle
    \/ Initialise
    \/ ExecuteBegin
    \/ \E w \in Procs : StartJob(w)
    \/ \E w \in Procs : PopFail(w, MaxRecords)
    \/ \E w \in Procs : PopOk(w, MaxRecords, MaxFiles * MaxRecords)
    \/ \E w \in Procs : Acquire(w)
    \/ \E w \in Procs : Release(w)
    \/ \E w \in Procs : Exhausted(w)
    \/ Consume
    \/ ExecuteEnd
    \/ Finalise

SpecWrap == InitWrap /\ [][NextWrap]_vars

\* C17: the counter is wide enough never to wrap: it is never negative, no
\* event is given a negative index, and no step makes the counter smaller.
C17_CounterNeverWraps ==
    /\ [](index >= 0 /\ \A e \in assigned : e.index >= 0)
    /\ [][index' >= index]_vars

(* ===================== ParquetToSQLiteConverter ======================= *)
\* most parquet files the converter is given
MaxPqFiles == 2
\* most events one parquet file holds
MaxPqEvents == 2
\* most calls of run on one instance
MaxPqRuns == 1

\* the fields of a parquet file: the truth table, with one row per event, and
\* a pulse map, with any number of rows per event
TruthField == "mc_truth"
PulseField == "pulses"
PqFields == <<TruthField, PulseField>>

\* how many pulses an event can have: none or several
PulseCounts == {0, 2}

\* a parquet file: its number of events and the pulses of each
PqFileTypes ==
    UNION {{[n |-> n, pulses |-> ps] : ps \in [1..n -> PulseCounts]} : n \in 0..MaxPqEvents}

\* the lists of parquet files _find_files can come up with
PqFileLists == UNION {[1..k -> PqFileTypes] : k \in 0..MaxPqFiles}

convVars == <<cfg, universe, phase, save_strategy, sub_from, sub_to, warnings, index, lock,
              args, jobs, map_fn, pool_size, next_job, results, runs, yielded, dataset,
              ix_batch, wk, assigned, earlier, popped, saved, fsops, calls, hist>>

RECURSIVE SumSeq(_)
SumSeq(q) == IF q = <<>> THEN 0 ELSE Head(q) + SumSeq(Tail(q))

\* np.repeat(v, k).tolist()
Repeat(v, k) == [x \in 1..k |-> v]

\* rows per event of the dataframe made from a field of a file
RowsOf(file, field) == IF field = TruthField THEN [c \in 1..file.n |-> 1] ELSE file.pulses

\* the loop of _make_df over range(counter, counter + n): the rows of event c
\* get event_no counter + c; an event without rows raises KeyError: pass
RECURSIVE RepeatedEventNos(_, _, _)
RepeatedEventNos(rows, c, counter) ==
    IF c > Len(rows) THEN <<>>
    ELSE Repeat(counter + c - 1, rows[c]) \o RepeatedEventNos(rows, c + 1, counter)

\* np.arange(0, n, 1) + counter
ArangeFrom(n, counter) == [k \in 1..n |-> counter + k - 1]

\* _make_df: the event_no column given to the dataframe of a field
MakeDf(file, field, counter) ==
    IF SumSeq(RowsOf(file, field)) # file.n
    THEN RepeatedEventNos(RowsOf(file, field), 1, counter)
    ELSE ArangeFrom(file.n, counter)

\* variant of NextEventCounter: the counter advances by one per file
NextEventCounterMut(counter, n_events_in_file) == counter + 1

\* self._event_counter += n_events_in_file
NextEventCounter(counter, n_events_in_file) == counter + n_events_in_file

InitParquet ==
    /\ ConvInit([nb |-> None, seq |-> None, pat |-> None, workers |-> 1], {})
    /\ \E fs \in PqFileLists, ex \in {{}, {PulseField}} :
          pq = [PqNone EXCEPT !.phase = "new", !.files = fs, !.excluded = ex]

\* __init__: _find_files asserts that files were found; the counter starts at 0
PqConstruct ==
    /\ pq.phase = "new"
    /\ pq' = [pq EXCEPT !.phase = IF Len(pq.files) > 0 THEN "ready" ELSE "ctor_failed",
                        !.event_counter = 0, !.created_tables = {}]
    /\ UNCHANGED convVars

\* run up to its loop over the files: _setup_directory
PqRunBegin ==
    /\ pq.phase = "ready"
    /\ pq.runs < MaxPqRuns
    /\ pq' = [pq EXCEPT !.phase = "running", !.i = 0, !.j = 0, !.runs = @ + 1]
    /\ UNCHANGED convVars

\* one iteration of the loop over the fields of the file that is open: a field
\* that is not excluded is made a dataframe and saved, its table created first
PqSaveField ==
    /\ pq.phase = "running"
    /\ pq.i < Len(pq.files)
    /\ pq.j < Len(PqFields)
    /\ LET file == pq.files[pq.i + 1]
           field == PqFields[pq.j + 1]
       IN  IF field \notin pq.excluded
           THEN pq' = [pq EXCEPT !.j = @ + 1,
                                 !.created_tables = @ \cup {field},
                                 !.written = Append(@, [ord |-> Len(pq.sizes) + 1,
                                                        n |-> file.n,
                                                        field |-> field,
                                                        event_no |-> MakeDf(file, field, pq.event_counter)])]
           ELSE pq' = [pq EXCEPT !.j = @ + 1]
    /\ UNCHANGED convVars

\* the fields of the file are done: advance the counter, go to the next file
PqNextFile ==
    /\ pq.phase = "running"
    /\ pq.i < Len(pq.files)
    /\ pq.j = Len(PqFields)
    /\ pq' = [pq EXCEPT !.event_counter = NextEventCounter(@, pq.files[pq.i + 1].n),
                        !.sizes = Append(@, pq.files[pq.i + 1].n),
                        !.i = @ + 1, !.j = 0]
    /\ UNCHANGED convVars

\* the files are done: _save_config; run returns
PqRunEnd ==
    /\ pq.phase = "running"
    /\ pq.i = Len(pq.files)
    /\ pq' = [pq EXCEPT !.phase = "ready"]
    /\ UNCHANGED convVars

NextParquet ==
    \/ PqConstruct
    \/ PqRunBegin
    \/ PqSaveField
    \/ PqNextFile
    \/ PqRunEnd

SpecParquet == InitParquet /\ [][NextParquet]_vars

\* the events of all files processed before the ord-th one
EventsBefore(ord) == SumSeq(SubSeq(pq.sizes, 1, ord - 1))

\* the ids found in a written table
IdsOf(w) == {w.event_no[k] : k \in 1..Len(w.event_no)}

Grouped == phase = "dispatch" /\ save_strategy = Some("pattern_batched")

\* C19: the groups execute builds do not depend on the order in which the
\* pairs arrive: every permutation of the pairs gives the same groups with the
\* same members in the same order.  That order is the order of first
\* occurrence in the traversal sorted by event-file path: a group's members
\* ascend by path, a group whose first member has the smaller path comes
\* first, the members of a group are the pairs with its key, and every pair is
\* in a group.
C19_GroupingIgnoresShuffle ==
    Grouped =>
        /\ \A f \in Perms(Len(args)) :
              PatternBatches(PairwiseShuffle(args, f), Get(sub_from), Get(sub_to)) = jobs
        /\ \A j \in 1..Len(jobs) :
              /\ \A k \in 1..Len(jobs[j].files) :
                    GroupKey(Get(sub_from), Get(sub_to), jobs[j].files[k][1]) = Get(jobs[j].name)
              /\ \A k1, k2 \in 1..Len(jobs[j].files) :
                    k1 < k2 => StrLess(jobs[j].files[k1][1], jobs[j].files[k2][1])
        /\ \A j1, j2 \in 1..Len(jobs) :
              j1 < j2 => /\ StrLess(jobs[j1].files[1][1], jobs[j2].files[1][1])
                         /\ jobs[j1].name # jobs[j2].name
        /\ {args[k] : k \in 1..Len(args)}
              = UNION {{jobs[j].files[k] : k \in 1..Len(jobs[j].files)} : j \in 1..Len(jobs)}

\* three pairs arrive out of path order, two of them with the same basename,
\* and fall into several groups, one with several members
C19_Witness ==
    /\ Grouped
    /\ Len(args) = 3
    /\ args # SortedByPath(args)
    /\ \E k1, k2 \in 1..Len(args) : k1 # k2 /\ Basename(args[k1][1]) = Basename(args[k2][1])
    /\ Len(jobs) >= 2
    /\ \E j \in 1..Len(jobs) : Len(jobs[j].files) >= 2

\* the output path of the flush unit job j stands for: the file's under 1:1,
\* the group's under the pattern strategy
UnitPath(j) ==
    IF IsNone(jobs[j].name)
    THEN GetOutputFile(jobs[j].files[1][1])
    ELSE GetOutputFile(Get(jobs[j].name))

\* the number of save_data calls made so far with this output path
SavesTo(path) ==
    LET S == {sv \in BagToSet(saved) : sv.path = path}
    IN  BagCardinality([sv \in S |-> CopiesIn(sv, saved)])

\* the records of the save_data calls made with this output path
DataSavedTo(path) == {sv.data : sv \in {x \in BagToSet(saved) : x.path = path}}

UnitsDone == {j \in 1..Len(jobs) : ~IsNone(results[j])}

\* C20: under the 1:1 and the pattern strategy save_data is called exactly
\* once for each flush unit, when its processing ends: once per input file
\* under 1:1, also for a file without records, the processor returning
\* nothing; once per group under the pattern strategy, with the records the
\* group's files returned, and never for a single file of a group.
C20_SaveOncePerUnit ==
    (phase \in {"dispatch", "executed"} /\ Get(save_strategy) # "sequential_batched") =>
        /\ \A j \in 1..Len(jobs) : SavesTo(UnitPath(j)) = (IF j \in UnitsDone THEN 1 ELSE 0)
        /\ BagCardinality(saved) = Cardinality(UnitsDone)
        /\ phase = "executed" => UnitsDone = 1..Len(jobs)
        /\ \A j \in UnitsDone :
              IF Get(save_strategy) = "1:1"
              THEN Get(results[j]).none
              ELSE /\ ~Get(results[j]).none
                   /\ DataSavedTo(UnitPath(j)) = {Get(results[j]).data}

\* a complete 1:1 run over a file with records and a file without
C20_Witness ==
    /\ phase = "executed"
    /\ Get(save_strategy) = "1:1"
    /\ Len(jobs) = 2
    /\ DataSavedTo(UnitPath(1)) = {<<>>}
    /\ DataSavedTo(UnitPath(2)) # {<<>>}

(* ================ properties of the order of the phases =============== *)
\* the states a call that finds files goes through, in this order
CallOrder == <<"idle", "found", "recorded", "shuffled", "initialised", "dispatch", "executed">>

Rank(p) == CHOOSE k \in 1..Len(CallOrder) : CallOrder[k] = p

InCall(p) == \E k \in 1..Len(CallOrder) : CallOrder[k] = p

\* a process is inside _process_file or _process_batch
Working(w) == wk[w].pc # "idle"

\* a step in which save_data is called
SaveStep == BagCardinality(saved') > BagCardinality(saved)

\* a step in which a file is opened, a record read or indexed, or a file's
\* processing ended
ProcessStep == wk' # wk \/ next_job' > next_job \/ popped' > popped

\* until initialise has completed nothing of the call's files was touched
NothingProcessed ==
    /\ next_job = 0
    /\ popped = 0
    /\ assigned = {}
    /\ saved = EmptyBag
    /\ hist.done = {}
    /\ \A w \in Procs : ~Working(w)

\* C21: a call that finds files goes through discovery, the provenance
\* record, the shuffle, initialise, dispatch and finalise in this order, each
\* once; until initialise has completed no file is processed and save_data is
\* not called; every step that processes a file or calls save_data is taken
\* during dispatch, after initialise and before finalise; and when finalise
\* starts execute has returned, no process is still at work and, the loop
\* having come to its end, every job's result has been yielded.
C21_PhasesInOrder ==
    /\ [](hist.initialise <= 1 /\ hist.execute <= 1 /\ hist.finalise <= 1)
    /\ []((hist.initialise = 0 \/ phase \in {"found", "recorded", "shuffled", "initialised"})
            => NothingProcessed)
    /\ [][(phase' # phase /\ InCall(phase) /\ InCall(phase')) =>
             \/ Rank(phase') = Rank(phase) + 1
             \/ (phase = "executed" /\ phase' = "idle")]_vars
    /\ [][(hist'.initialise > hist.initialise) => (phase = "shuffled" /\ hist.execute = 0)]_vars
    /\ [][(hist'.execute > hist.execute) => (phase = "initialised" /\ hist.initialise = 1)]_vars
    /\ [][(SaveStep \/ ProcessStep) =>
             (phase = "dispatch" /\ hist.initialise = 1 /\ hist.execute = 1 /\ hist.finalise = 0)]_vars
    /\ [][(hist'.finalise > hist.finalise) =>
             /\ phase # "dispatch"
             /\ hist.execute = 1
             /\ phase = "executed" =>
                   /\ Len(yielded) = Len(jobs)
                   /\ \A j \in 1..Len(jobs) : ~IsNone(results[j])
             /\ \A w \in Procs : ~Working(w)
             /\ saved' = saved]_vars

\* the second call of an instance has been finalised after a pool of workers
\* saved several files
C21_Witness ==
    /\ phase = "idle"
    /\ calls = 2
    /\ hist.finalise = 1
    /\ map_fn = "imap"
    /\ BagCardinality(saved) >= 2
    /\ popped >= 1

(* ============== properties of the records of one file ================= *)
\* most records one event file holds when several workers read long files
MaxReadRecords == 2

\* the two event files the workers read side by side
ReadUniverse == {<<"a", "1">>, <<"a", "2">>}

\* the three strategies, sequential batching by one and by two files
ReadConfigs ==
    {[nb |-> c[1], seq |-> c[2], pat |-> c[3], workers |-> w] :
        c \in {<<None, None, None>>,
               <<Some(1), Some(SeqPattern), None>>,
               <<Some(2), Some(SeqPattern), None>>,
               <<None, None, Some(<<"a", "*">>)>>},
        w \in 1..MaxWorkers}

InitReads == \E c \in ReadConfigs : InitWith(c, ReadUniverse)

\* one call on a fresh instance
NextReads ==
    \/ Construct
    \/ CallFind(MaxFiles, 1)
    \/ SaveFilenames
    \/ Shuffle
    \/ Initialise
    \/ ExecuteBegin
    \/ \E w \in Procs : StartJob(w)
    \/ \E w \in Procs : PopFail(w, MaxReadRecords)
    \/ \E w \in Procs : PopOk(w, MaxReadRecords, MaxFiles * MaxReadRecords)
    \/ \E w \in Procs : Acquire(w)
    \/ \E w \in Procs : Release(w)
    \/ \E w \in Procs : Exhausted(w)
    \/ Consume
    \/ ExecuteEnd
    \/ Finalise

SpecReads == InitReads /\ [][NextReads]_vars

\* the records of a list that belong to one file, in the order of the list
RECURSIVE OfFile(_, _)
OfFile(data, file) ==
    IF data = <<>> THEN <<>>
    ELSE (IF Head(data).file = file THEN <<Head(data)>> ELSE <<>>) \o OfFile(Tail(data), file)

\* read positions and index values both grow strictly along the list
InReadOrder(data) ==
    \A k1, k2 \in 1..Len(data) :
        k1 < k2 => /\ data[k1].pos < data[k2].pos
                   /\ data[k1].index < data[k2].index

\* every table of the record carries the record's index
SameIndexInTables(ev) ==
    /\ DOMAIN ev.tables = TableNames
    /\ \A t \in TableNames : ev.tables[t] = ev.index

\* every list of records the run holds: a processor's list in the making, a
\* group's list, a returned list, the batching loop's list, a saved list
RecordLists ==
    {wk[w].data : w \in Procs} \cup {wk[w].batch : w \in Procs}
        \cup {Get(results[j]).data : j \in {i \in 1..Len(results) : ~IsNone(results[i])}}
        \cup {dataset} \cup {sv.data : sv \in BagToSet(saved)}

\* C22: the list a per-file processor builds and returns holds the file's
\* records in the order they were read, with strictly increasing index values,
\* whatever other workers index in between; this stays so for the records of
\* one file inside every list they are passed on in (a group's list, the
\* batching loop's list, a saved list); and every table of a record carries
\* the one index value the record was given.
C22_ReadOrderWithinFile ==
    /\ \A w \in Procs : InReadOrder(wk[w].data)
    /\ \A d \in RecordLists :
          /\ \A f \in universe : InReadOrder(OfFile(d, f))
          /\ \A k \in 1..Len(d) : SameIndexInTables(d[k])
    /\ \A e \in assigned : SameIndexInTables(e)

\* a pool worker returned a file's two records, and another worker indexed a
\* record of its own file between the two
C22_Witness ==
    /\ map_fn = "imap"
    /\ \E sv \in BagToSet(saved) :
          /\ Len(sv.data) = 2
          /\ sv.data[1].file = sv.data[2].file
          /\ sv.data[2].index > sv.data[1].index + 1

(* ============ an interrupt outside the dispatching loop =============== *)
\* where __call__ stands outside execute's try block: find_i3_files has
\* returned files ("found": the discovery and the provenance record),
\* "recorded" (the shuffle), "shuffled" (initialise), "initialised" (the start
\* of execute: makedirs, zip), "executed" (finalise)
OutsideTry == {"found", "recorded", "shuffled", "initialised", "executed"}

\* SIGINT arrives while __call__ is outside execute's try block: no except
\* clause is in reach, the KeyboardInterrupt leaves __call__
InterruptOutside ==
    /\ phase \in OutsideTry
    /\ hist.sigint < MaxInterrupts
    /\ phase' = "raised"
    /\ hist' = [hist EXCEPT !.sigint = @ + 1]
    /\ UNCHANGED <<cfg, universe, save_strategy, sub_from, sub_to, warnings, index, lock,
                   args, jobs, map_fn, pool_size, next_job, results, runs, yielded, dataset,
                   ix_batch, wk, assigned, earlier, popped, saved, fsops, calls, pq>>

NextSignal ==
    \/ Construct
    \/ CallFind(MaxFiles, MaxFileCalls)
    \/ SaveFilenames
    \/ Shuffle
    \/ Initialise
    \/ ExecuteBegin
    \/ \E w \in Procs : StartJob(w)
    \/ \E w \in Procs : PopFail(w, MaxRecords)
    \/ \E w \in Procs : PopOk(w, MaxRecords, MaxFiles * MaxRecords)
    \/ \E w \in Procs : Acquire(w)
    \/ \E w \in Procs : Release(w)
    \/ \E w \in Procs : Exhausted(w)
    \/ InterruptCaught
    \/ InterruptOutside
    \/ Consume
    \/ ExecuteEnd
    \/ Finalise

SpecSignal == InitSolo /\ [][NextSignal]_vars

\* C23: an interrupt that arrives while the call is in a state other than
\* dispatch is taken by the orchestrator as well: the run goes to Aborted,
\* the interrupt never leaves the call as an exception, and from the interrupt
\* on the call makes no save_data call.
C23_InterruptOutsideDispatch ==
    /\ [][(InterruptArrives /\ phase # "dispatch") =>
             (phase' = "interrupted" /\ hist'.caught)]_vars
    /\ [](hist.sigint > 0 => phase # "raised")
    /\ [][(hist.sigint > 0 /\ ~hist.caught /\ calls' = calls) => saved' = saved]_vars

(* ================ properties of what is passed to save_data =========== *)
\* the positions at which a save_data call holds the record
PlacesIn(sv, e) == {i \in 1..Len(sv.data) : sv.data[i] = e}

\* the save_data calls made so far that hold the record
FlushesOf(e) == {sv \in BagToSet(saved) : PlacesIn(sv, e) # {}}

\* the record was passed to save_data once: in one call, made once, at one
\* place of its list
SavedOnce(e) ==
    /\ Cardinality(FlushesOf(e)) = 1
    /\ \A sv \in FlushesOf(e) : CopiesIn(sv, saved) = 1 /\ Cardinality(PlacesIn(sv, e)) = 1

\* the record was passed to save_data at most once so far
SavedAtMostOnce(e) ==
    /\ Cardinality(FlushesOf(e)) <= 1
    /\ \A sv \in FlushesOf(e) : CopiesIn(sv, saved) = 1 /\ Cardinality(PlacesIn(sv, e)) = 1

\* the places of the job list that hold the pair
SubmittedAt(pair) ==
    {<<j, k>> \in (1..Len(jobs)) \X (1..Len(args)) :
        k <= Len(jobs[j].files) /\ jobs[j].files[k] = pair}

\* execute has returned at the end of its mapping loop and the call has not
\* been followed by another one
RunCompleted == phase = "executed" \/ (phase = "idle" /\ hist.finalise = 1 /\ ~hist.caught)

\* C24: at no point of a run has a record been passed to save_data twice or a
\* record been saved that no processor produced, and the records of one file
\* are never spread over two save_data calls; when a run completes, every
\* record a per-file processor produced has been passed to save_data exactly
\* once, every pair of the call was submitted in exactly one job, every job
\* was run once, every file was processed to its end, and no record of a
\* file was read twice.
C24_EveryRecordSavedOnce ==
    /\ \A e \in assigned : SavedAtMostOnce(e)
    /\ \A sv \in BagToSet(saved) : \A i \in 1..Len(sv.data) : sv.data[i] \in assigned
    /\ \A e1, e2 \in assigned :
          /\ (e1.file = e2.file /\ FlushesOf(e1) # {} /\ FlushesOf(e2) # {})
                => FlushesOf(e1) = FlushesOf(e2)
          /\ (e1.file = e2.file /\ e1.pos = e2.pos) => e1 = e2
    /\ RunCompleted =>
          /\ \A e \in assigned : SavedOnce(e)
          /\ \A k \in 1..Len(args) :
                /\ Cardinality(SubmittedAt(args[k])) = 1
                /\ args[k][1] \in hist.done
          /\ \A j \in 1..Len(jobs) : runs[j] = 1
          /\ Cardinality(assigned) = popped

\* a pool run that batches file by file has completed: two files with two
\* records each, every file's records in a flush of their own
C24_Witness ==
    /\ phase = "executed"
    /\ map_fn = "imap"
    /\ Get(save_strategy) = "sequential_batched"
    /\ BagCardinality(saved) = 2
    /\ \A sv \in BagToSet(saved) : Len(sv.data) = 2
    /\ Cardinality(assigned) = 4

(* ============== properties of the counter across calls ================ *)
\* the number of events the instance has indexed since its construction
IndexedSoFar == Cardinality(earlier) + Cardinality(assigned)

\* C25: the counter always equals the number of events the instance has
\* indexed since its construction, and the values handed out so far are
\* 0 .. counter-1; no step makes it smaller, and the start of a call leaves
\* it as it is; so a later call of the instance numbers its events from the
\* count the earlier calls reached, with values none of them used: after a
\* call that indexed events, no event of the next call gets index 0.
C25_CounterKeptAcrossCalls ==
    /\ [](/\ index = IndexedSoFar
           /\ earlier \cup Indices = 0..(index - 1)
           /\ earlier \cap Indices = {}
           /\ \A e \in assigned : e.index >= Cardinality(earlier)
           /\ earlier # {} => 0 \notin Indices)
    /\ [][index' >= index]_vars
    /\ [][calls' # calls => index' = index]_vars

\* the second call of an instance that had indexed two events has indexed a
\* third one
C25_Witness ==
    /\ calls = 2
    /\ Cardinality(earlier) = 2
    /\ Indices = {2}
    /\ index = 3

====
